---- MODULE Spec2Model ----
(***************************************************************************)
(* A model of the line-delimited JSON service of tcp-json-proxy:           *)
(*   server.py  - LRUCache, handle_request, handle_client                  *)
(*   proxy.py   - PROXY_CACHE, forward_request_to_server, handle           *)
(* JSON text is modelled by the tree it denotes, object members kept in    *)
(* their textual order, so that two texts are equal iff their trees are.   *)
(***************************************************************************)
EXTENDS Integers, Sequences, FiniteSets, TLC

(***************************************************************************)
(* Bounds of the model.                                                    *)
(***************************************************************************)
\* largest cache capacity explored (--cache-size)
MaxCap == 2

\* connection workers sharing the Result Cache, and cache calls made by each
NWorkers == 2

MaxCalls == 2

\* connections accepted by the server, and request lines sent over all of them
NConns == 2

MaxLines == 3

MaxSeqLines == 4

(***************************************************************************)
(* JSON values.  Every value is a record of the same shape:                *)
(*   ty   - "str" | "num" | "bool" | "null" | "obj" | "arr" | "bad"        *)
(*   s    - the text of a scalar                                           *)
(*   kids - the members of an object (or items of an array), in order,     *)
(*          each [k |-> member name, v |-> value]                          *)
(* "bad" stands for a text that is not JSON at all.                        *)
(***************************************************************************)
JStr(s) == [ty |-> "str", s |-> s, kids |-> <<>>]

JNum(s) == [ty |-> "num", s |-> s, kids |-> <<>>]

JBool(b) == [ty |-> "bool", s |-> IF b THEN "true" ELSE "false", kids |-> <<>>]

JNull == [ty |-> "null", s |-> "null", kids |-> <<>>]

JObj(members) == [ty |-> "obj", s |-> "", kids |-> members]

JArr(items) == [ty |-> "arr", s |-> "", kids |-> items]

JBad(s) == [ty |-> "bad", s |-> s, kids |-> <<>>]

M(k, v) == [k |-> k, v |-> v]

\* Python's None is what JSON null parses to
None == JNull

(***************************************************************************)
(* collections.OrderedDict, as the sequence of its items, oldest first.    *)
(***************************************************************************)
OD_keys(od) == {od[i].k : i \in 1..Len(od)}

OD_contains(od, key) == key \in OD_keys(od)

OD_index(od, key) == CHOOSE i \in 1..Len(od) : od[i].k = key

OD_getitem(od, key) == od[OD_index(od, key)].v

\* od[key] = value: a present key keeps its place, a new key goes last
OD_setitem(od, key, value) ==
    IF OD_contains(od, key)
    THEN [od EXCEPT ![OD_index(od, key)] = M(key, value)]
    ELSE Append(od, M(key, value))

\* od.move_to_end(key), key present
OD_move_to_end(od, key) ==
    LET i == OD_index(od, key)
    IN  Append(SubSeq(od, 1, i - 1) \o SubSeq(od, i + 1, Len(od)), od[i])

\* od.popitem(last=False), od not empty
OD_popitem_first(od) == Tail(od)

(***************************************************************************)
(* class LRUCache (server.py).  get yields the new dictionary and the      *)
(* value returned; set yields the new dictionary.                          *)
(***************************************************************************)
LRUCache_get_noRefresh(od, key) ==
    IF ~OD_contains(od, key)
    THEN [d |-> od, ret |-> None]
    ELSE [d |-> od, ret |-> OD_getitem(od, key)]

LRUCache_get(od, key) ==
    IF ~OD_contains(od, key)
    THEN [d |-> od, ret |-> None]
    ELSE [d |-> OD_move_to_end(od, key), ret |-> OD_getitem(od, key)]

LRUCache_set_evictAtCapacity(od, cap, key, value) ==
    LET d1 == OD_setitem(od, key, value)
        d2 == OD_move_to_end(d1, key)
    IN  IF Len(d2) >= cap THEN OD_popitem_first(d2) ELSE d2

LRUCache_set(od, cap, key, value) ==
    LET d1 == OD_setitem(od, key, value)
        d2 == OD_move_to_end(d1, key)
    IN  IF Len(d2) > cap THEN OD_popitem_first(d2) ELSE d2

(***************************************************************************)
(* State.                                                                  *)
(***************************************************************************)
VARIABLES
    capacity,   \* LRUCache.capacity
    d,          \* LRUCache._d
    call,       \* the last cache call: operation, arguments, result, evictions
    ref,        \* reference LRU model driven by the same calls
    scen,       \* progress of the k1, k2, k3 eviction scenario
    pc,         \* per worker thread: the line of get/set it is about to run
    arg,        \* per worker thread: the key and value of its current call
    log,        \* per worker thread: the calls it has started, in order
    wire,       \* per server connection: bytes sent by the client, not yet received
    buffer,     \* per server connection: handle_client's buffer
    out,        \* per server connection: the reply lines written to the socket
    st,         \* per server connection: "open", or "closed" once the worker has left
    cli,        \* per server connection: "open", or "closed" once the client has closed
    hist,       \* the lines dispatched by the server so far, with their replies
    menu,       \* the lines clients choose from in this run
    PROXY_CACHE,  \* proxy.py's PROXY_CACHE, as the sequence of its items
    upstream,   \* the calls of forward_request_to_server so far
    comp,       \* an upstream reply run through the proxy's meta composition
    fwd         \* one call of forward_request_to_server reading its reply

netVars == <<wire, buffer, out, st, cli, hist, menu>>

pxVars == <<PROXY_CACHE, upstream, comp, fwd>>

vars == <<capacity, d, call, ref, scen, pc, arg, log, netVars, pxVars>>

NoNet == <<>>

NetIdle ==
    /\ wire = NoNet /\ buffer = NoNet /\ out = NoNet
    /\ st = NoNet /\ cli = NoNet /\ hist = NoNet /\ menu = {}

\* no proxy in this specification
PxIdle == PROXY_CACHE = <<>> /\ upstream = <<>> /\ comp = <<>> /\ fwd = <<>>

NoScen == [phase |-> 0, accBefore |-> FALSE, accAfter |-> FALSE, evictedK1 |-> FALSE,
           k1 |-> None, k2 |-> None, k3 |-> None]

NoThreads == <<>>

(***************************************************************************)
(* The Result Cache on its own: sequential get and set calls.              *)
(***************************************************************************)
LRUKeys == {JStr("k1"), JStr("k2"), JStr("k3"), JStr("k4")}

LRUVals == {JNum("1.0"), JNum("2.0")}

NoCall == [op |-> "none", key |-> None, val |-> None, ret |-> None,
           evicted |-> {}, refEvicted |-> {}]

\* Reference model: every key has a recency rank, 0 when absent, 1 for the
\* least recently used entry, and a value.
RefEmpty == [k \in LRUKeys |-> [rank |-> 0, v |-> None]]

RefCount(r) == Cardinality({k \in DOMAIN r : r[k].rank > 0})

RefTouch(r, key) ==
    LET n == RefCount(r)
        old == r[key].rank
    IN  [k \in DOMAIN r |->
            IF k = key THEN [r[k] EXCEPT !.rank = n]
            ELSE IF r[k].rank > old THEN [r[k] EXCEPT !.rank = @ - 1]
            ELSE r[k]]

RefVictims(r, cap, key) ==
    IF r[key].rank = 0 /\ RefCount(r) >= cap
    THEN {k \in DOMAIN r : r[k].rank = 1}
    ELSE {}

\* the reference evicts the least recently used entry before it inserts
RefSet(r, cap, key, value) ==
    IF r[key].rank > 0
    THEN [RefTouch(r, key) EXCEPT ![key].v = value]
    ELSE LET room == IF RefCount(r) >= cap
                     THEN [k \in DOMAIN r |->
                             IF r[k].rank = 1 THEN [rank |-> 0, v |-> None]
                             ELSE IF r[k].rank > 1 THEN [r[k] EXCEPT !.rank = @ - 1]
                             ELSE r[k]]
                     ELSE r
         IN  [room EXCEPT ![key] = [rank |-> RefCount(room) + 1, v |-> value]]

RefGet(r, key) == IF r[key].rank > 0 THEN RefTouch(r, key) ELSE r

InitLRU ==
    /\ capacity \in 1..MaxCap
    /\ d = <<>>
    /\ call = NoCall
    /\ ref = RefEmpty
    /\ scen = NoScen
    /\ pc = NoThreads /\ arg = NoThreads /\ log = NoThreads
    /\ NetIdle /\ PxIdle

Get(key) ==
    LET g == LRUCache_get(d, key)
    IN  /\ d' = g.d
        /\ call' = [op |-> "get", key |-> key, val |-> None, ret |-> g.ret,
                    evicted |-> OD_keys(d) \ OD_keys(g.d), refEvicted |-> {}]
        /\ ref' = RefGet(ref, key)
        /\ UNCHANGED <<capacity, scen, pc, arg, log, netVars, pxVars>>

Set(key, value) ==
    LET d2 == LRUCache_set(d, capacity, key, value)
    IN  /\ d' = d2
        /\ call' = [op |-> "set", key |-> key, val |-> value, ret |-> None,
                    evicted |-> OD_keys(d) \ OD_keys(d2),
                    refEvicted |-> RefVictims(ref, capacity, key)]
        /\ ref' = RefSet(ref, capacity, key, value)
        /\ UNCHANGED <<capacity, scen, pc, arg, log, netVars, pxVars>>

NextLRU ==
    \/ \E key \in LRUKeys : Get(key)
    \/ \E key \in LRUKeys, value \in LRUVals : Set(key, value)

SpecLRU == InitLRU /\ [][NextLRU]_vars

\* C4: strict LRU. After every series of get and set calls the cache holds the
\* entries of the reference LRU model in the reference's recency order, every
\* get returned what the reference holds, and every set removed exactly the
\* entry the reference names as least recently accessed.
StrictLRU ==
    /\ Len(d) = RefCount(ref)
    /\ \A i \in 1..Len(d) :
          /\ d[i].k \in DOMAIN ref
          /\ ref[d[i].k].rank = i
          /\ ref[d[i].k].v = d[i].v
    /\ call.evicted = call.refEvicted
    /\ call.op = "get" =>
          call.ret = (IF ref[call.key].rank > 0 THEN ref[call.key].v ELSE None)

\* a set of a new key has just evicted an entry of a full cache of two or more
StrictLRUWitness ==
    /\ call.op = "set"
    /\ call.evicted # {}
    /\ Len(d) = capacity
    /\ capacity >= 2

\* C5: the cache never holds more than capacity entries, and an entry leaves
\* the cache only in a set of a key that was absent while capacity entries
\* were present, which removes exactly one entry.
CapacityInvariant ==
    /\ [](Len(d) <= capacity)
    /\ [][ LET removed == OD_keys(d) \ OD_keys(d')
           IN  removed # {} =>
                 /\ call'.op = "set"
                 /\ ~OD_contains(d, call'.key)
                 /\ Len(d) = capacity
                 /\ Cardinality(removed) = 1 ]_vars

CapacityWitness ==
    /\ call.op = "set"
    /\ Cardinality(call.evicted) = 1
    /\ Len(d) = capacity

(***************************************************************************)
(* The eviction scenario: a cache of capacity 2 receives set(k1), set(k2), *)
(* set(k3), with get and set accesses of k1 anywhere in between, and then  *)
(* get(k1).  scen.phase counts the insertions made (4 after the last get); *)
(* k1, k2, k3 are any three distinct keys.                                 *)
(***************************************************************************)
InitEvict ==
    /\ capacity = 2
    /\ d = <<>>
    /\ call = NoCall
    /\ ref = RefEmpty
    /\ \E a \in LRUKeys, b \in LRUKeys, c \in LRUKeys :
          /\ a # b /\ b # c /\ a # c
          /\ scen = [NoScen EXCEPT !.k1 = a, !.k2 = b, !.k3 = c]
    /\ pc = NoThreads /\ arg = NoThreads /\ log = NoThreads
    /\ NetIdle /\ PxIdle

Insert(n, key, value) ==
    /\ scen.phase = n - 1
    /\ LET d2 == LRUCache_set(d, capacity, key, value)
       IN  /\ d' = d2
           /\ call' = [NoCall EXCEPT !.op = "set", !.key = key, !.val = value,
                                     !.evicted = OD_keys(d) \ OD_keys(d2)]
           /\ scen' = [scen EXCEPT !.phase = n,
                                   !.evictedK1 = @ \/ (n = 3 /\ scen.k1 \notin OD_keys(d2))]
    /\ UNCHANGED <<capacity, ref, pc, arg, log, netVars, pxVars>>

Noted(s) ==
    IF s.phase = 1 THEN [s EXCEPT !.accBefore = TRUE] ELSE [s EXCEPT !.accAfter = TRUE]

AccessGetK1 ==
    /\ scen.phase \in {1, 2}
    /\ LET g == LRUCache_get(d, scen.k1)
       IN  /\ d' = g.d
           /\ call' = [NoCall EXCEPT !.op = "get", !.key = scen.k1, !.ret = g.ret]
    /\ scen' = Noted(scen)
    /\ UNCHANGED <<capacity, ref, pc, arg, log, netVars, pxVars>>

AccessSetK1(value) ==
    /\ scen.phase \in {1, 2}
    /\ d' = LRUCache_set(d, capacity, scen.k1, value)
    /\ call' = [NoCall EXCEPT !.op = "set", !.key = scen.k1, !.val = value]
    /\ scen' = Noted(scen)
    /\ UNCHANGED <<capacity, ref, pc, arg, log, netVars, pxVars>>

ProbeK1 ==
    /\ scen.phase = 3
    /\ LET g == LRUCache_get(d, scen.k1)
       IN  /\ d' = g.d
           /\ call' = [NoCall EXCEPT !.op = "get", !.key = scen.k1, !.ret = g.ret]
    /\ scen' = [scen EXCEPT !.phase = 4]
    /\ UNCHANGED <<capacity, ref, pc, arg, log, netVars, pxVars>>

NextEvict ==
    \/ \E value \in LRUVals : Insert(1, scen.k1, value)
    \/ \E value \in LRUVals : Insert(2, scen.k2, value)
    \/ \E value \in LRUVals : Insert(3, scen.k3, value)
    \/ AccessGetK1
    \/ \E value \in LRUVals : AccessSetK1(value)
    \/ ProbeK1

SpecEvict == InitEvict /\ [][NextEvict]_vars

\* C6 as stated: k1 is evicted by the insertion of k3 iff k1 was not accessed
\* again at any point between its own insertion and the insertion of k3, and
\* get(k1) after the eviction returns absent.
EvictIffNeverReaccessed ==
    /\ scen.phase >= 3 => (scen.evictedK1 <=> ~(scen.accBefore \/ scen.accAfter))
    /\ scen.phase = 4 /\ scen.evictedK1 => call.ret = None

\* C6 amended: k1 is evicted by the insertion of k3 iff k1 was not accessed
\* again between the insertion of k2 and the insertion of k3 (an access before
\* k2 was inserted does not save it), and get(k1) after the eviction returns
\* absent.
EvictIffNotReaccessedAfterK2 ==
    /\ scen.phase >= 3 => (scen.evictedK1 <=> ~scen.accAfter)
    /\ scen.phase = 4 /\ scen.evictedK1 => call.ret = None

\* k1 was accessed before k2 came, was evicted by k3 all the same, and the
\* final get(k1) found nothing
EvictWitness ==
    /\ scen.phase = 4
    /\ scen.evictedK1
    /\ scen.accBefore
    /\ call.op = "get" /\ call.ret = None

(***************************************************************************)
(* The Result Cache shared by connection workers (serve starts one thread  *)
(* per connection, all given the same LRUCache, which holds no lock).      *)
(* A thread may be preempted between any two lines of get and set; each    *)
(* OrderedDict operation is itself atomic.  pc names the line a thread is  *)
(* about to run; "KeyError" is a call that raised.                         *)
(***************************************************************************)
Workers == 1..NWorkers

ConcKeys == {JStr("k1"), JStr("k2"), JStr("k3")}

ConcVals == {JNum("1.0")}

InitConc ==
    /\ capacity \in 1..MaxCap
    /\ d = <<>>
    /\ call = NoCall
    /\ ref = RefEmpty
    /\ scen = NoScen
    /\ pc = [w \in Workers |-> "idle"]
    /\ arg = [w \in Workers |-> M(None, None)]
    /\ log = [w \in Workers |-> <<>>]
    /\ NetIdle /\ PxIdle

\* a worker calls cache.get(key)
CallGet(w, key) ==
    /\ pc[w] = "idle"
    /\ Len(log[w]) < MaxCalls
    /\ pc' = [pc EXCEPT ![w] = "get31"]
    /\ arg' = [arg EXCEPT ![w] = M(key, None)]
    /\ log' = [log EXCEPT ![w] = Append(@, [op |-> "get", k |-> key, v |-> None])]
    /\ UNCHANGED <<capacity, d, call, ref, scen, netVars, pxVars>>

\* a worker calls cache.set(key, value)
CallSet(w, key, value) ==
    /\ pc[w] = "idle"
    /\ Len(log[w]) < MaxCalls
    /\ pc' = [pc EXCEPT ![w] = "set37"]
    /\ arg' = [arg EXCEPT ![w] = M(key, value)]
    /\ log' = [log EXCEPT ![w] = Append(@, [op |-> "set", k |-> key, v |-> value])]
    /\ UNCHANGED <<capacity, d, call, ref, scen, netVars, pxVars>>

\* if key not in self._d: return None
Get31(w) ==
    /\ pc[w] = "get31"
    /\ pc' = [pc EXCEPT ![w] = IF OD_contains(d, arg[w].k) THEN "get33" ELSE "idle"]
    /\ UNCHANGED <<capacity, d, call, ref, scen, arg, log, netVars, pxVars>>

\* self._d.move_to_end(key)
Get33(w) ==
    /\ pc[w] = "get33"
    /\ IF OD_contains(d, arg[w].k)
       THEN /\ d' = OD_move_to_end(d, arg[w].k)
            /\ pc' = [pc EXCEPT ![w] = "get34"]
       ELSE /\ d' = d
            /\ pc' = [pc EXCEPT ![w] = "KeyError"]
    /\ UNCHANGED <<capacity, call, ref, scen, arg, log, netVars, pxVars>>

\* return self._d[key]
Get34(w) ==
    /\ pc[w] = "get34"
    /\ pc' = [pc EXCEPT ![w] = IF OD_contains(d, arg[w].k) THEN "idle" ELSE "KeyError"]
    /\ UNCHANGED <<capacity, d, call, ref, scen, arg, log, netVars, pxVars>>

\* self._d[key] = value
Set37(w) ==
    /\ pc[w] = "set37"
    /\ d' = OD_setitem(d, arg[w].k, arg[w].v)
    /\ pc' = [pc EXCEPT ![w] = "set38"]
    /\ UNCHANGED <<capacity, call, ref, scen, arg, log, netVars, pxVars>>

\* self._d.move_to_end(key)
Set38(w) ==
    /\ pc[w] = "set38"
    /\ IF OD_contains(d, arg[w].k)
       THEN /\ d' = OD_move_to_end(d, arg[w].k)
            /\ pc' = [pc EXCEPT ![w] = "set39"]
       ELSE /\ d' = d
            /\ pc' = [pc EXCEPT ![w] = "KeyError"]
    /\ UNCHANGED <<capacity, call, ref, scen, arg, log, netVars, pxVars>>

\* if len(self._d) > self.capacity:
Set39(w) ==
    /\ pc[w] = "set39"
    /\ pc' = [pc EXCEPT ![w] = IF Len(d) > capacity THEN "set40" ELSE "idle"]
    /\ UNCHANGED <<capacity, d, call, ref, scen, arg, log, netVars, pxVars>>

\* self._d.popitem(last=False)
Set40(w) ==
    /\ pc[w] = "set40"
    /\ IF d # <<>>
       THEN /\ d' = OD_popitem_first(d)
            /\ pc' = [pc EXCEPT ![w] = "idle"]
       ELSE /\ d' = d
            /\ pc' = [pc EXCEPT ![w] = "KeyError"]
    /\ UNCHANGED <<capacity, call, ref, scen, arg, log, netVars, pxVars>>

NextConc ==
    \/ \E w \in Workers, key \in ConcKeys : CallGet(w, key)
    \/ \E w \in Workers, key \in ConcKeys, value \in ConcVals : CallSet(w, key, value)
    \/ \E w \in Workers : Get31(w)
    \/ \E w \in Workers : Get33(w)
    \/ \E w \in Workers : Get34(w)
    \/ \E w \in Workers : Set37(w)
    \/ \E w \in Workers : Set38(w)
    \/ \E w \in Workers : Set39(w)
    \/ \E w \in Workers : Set40(w)

SpecConc == InitConc /\ [][NextConc]_vars

ApplyCall(od, cap, c) ==
    IF c.op = "get" THEN LRUCache_get(od, c.k).d ELSE LRUCache_set(od, cap, c.k, c.v)

\* the dictionaries that running the given calls one at a time can end in,
\* each worker's calls kept in its own order
RECURSIVE SeqOutcomes(_, _, _)
SeqOutcomes(od, cap, progs) ==
    LET busy == {w \in DOMAIN progs : progs[w] # <<>>}
    IN  IF busy = {} THEN {od}
        ELSE UNION { SeqOutcomes(ApplyCall(od, cap, Head(progs[w])), cap,
                                 [progs EXCEPT ![w] = Tail(@)]) : w \in busy }

Quiescent == \A w \in Workers : pc[w] \in {"idle", "KeyError"}

\* C10: under every interleaving of the steps of get and set run by the
\* connection workers, no call raises, and once all calls have returned the
\* cache holds at most capacity entries, in contents and recency order the
\* result of running the same calls one after another in some order.
ThreadSafe ==
    /\ \A w \in Workers : pc[w] # "KeyError"
    /\ Quiescent =>
          /\ Len(d) <= capacity
          /\ d \in SeqOutcomes(<<>>, capacity, log)

(***************************************************************************)
(* JSON as Python sees it after json.loads.                                *)
(***************************************************************************)
\* bool(v)
Truthy(v) ==
    CASE v.ty = "null" -> FALSE
      [] v.ty = "bool" -> v.s = "true"
      [] v.ty = "num" -> v.s \notin {"0", "0.0"}
      [] v.ty = "str" -> v.s # ""
      [] OTHER -> v.kids # <<>>

\* obj.get(name, default), obj a dict
dict_get(obj, name, default) ==
    IF OD_contains(obj.kids, name) THEN OD_getitem(obj.kids, name) ELSE default

\* v or {}
OrEmptyDict(v) == IF Truthy(v) THEN v ELSE JObj(<<>>)

\* the member names in use, in lexicographic order (sort_keys compares names)
NameOrder ==
    <<"any_cache", "cache", "data", "error", "expr", "from_cache", "meta", "mode",
      "ok", "options", "prompt", "proxy_from_cache", "result", "took_ms">>

NameRank(name) == CHOOSE i \in 1..Len(NameOrder) : NameOrder[i] = name

SortMembers(members) ==
    [p \in 1..Len(members) |->
        members[CHOOSE i \in 1..Len(members) :
                   Cardinality({j \in 1..Len(members) :
                       NameRank(members[j].k) < NameRank(members[i].k)}) = p - 1]]

\* a serialization that puts only the outermost object's members in name order
json_dumps_sortedOutermost(v) ==
    IF v.ty = "obj" THEN JObj(SortMembers(v.kids)) ELSE v

\* json.dumps(v, sort_keys=True): every object's members in name order
RECURSIVE json_dumps_sorted(_)
json_dumps_sorted(v) ==
    IF v.ty = "obj"
    THEN LET m == SortMembers(v.kids)
         IN  JObj([i \in 1..Len(m) |-> M(m[i].k, json_dumps_sorted(m[i].v))])
    ELSE IF v.ty = "arr"
    THEN JArr([i \in 1..Len(v.kids) |-> M(v.kids[i].k, json_dumps_sorted(v.kids[i].v))])
    ELSE v

(***************************************************************************)
(* The collaborators of handle_request.                                    *)
(***************************************************************************)
\* safe_eval_expr on the expressions used here: a float, or an exception
safe_eval_expr(expr) ==
    CASE expr = "1+2" -> [ok |-> TRUE, val |-> JNum("3.0")]
      [] expr = "sqrt(9)" -> [ok |-> TRUE, val |-> JNum("3.0")]
      [] expr = "2*3" -> [ok |-> TRUE, val |-> JNum("6.0")]
      [] expr = "10/0" -> [ok |-> FALSE, val |-> JStr("division by zero")]
      [] OTHER -> [ok |-> FALSE, val |-> JStr("illegal expression")]

\* what call_gpt may return for a prompt: the model's text, or the text it
\* builds from an exception
GptOutputs == {"hello", "[GPT-ERROR] quota"}

\* int((time.time() - started) * 1000); nothing read by a claim depends on it
TookVals == {"0"}

OkResp(result, fromCache, anyCache, took) ==
    JObj(<<M("ok", JBool(TRUE)), M("result", result),
           M("meta", JObj(<<M("from_cache", JBool(fromCache)),
                            M("any_cache", JBool(anyCache)),
                            M("took_ms", JNum(took))>>))>>)

ErrResp(text) == JObj(<<M("ok", JBool(FALSE)), M("error", JStr(text))>>)

\* the try block of handle_request: the result, or the error envelope's text
Evaluate(mode, data, gptOut) ==
    IF mode = JStr("calc")
    THEN IF data.ty # "obj"
         THEN [ok |-> FALSE, val |-> JStr("Server error: no attribute 'get'")]
         ELSE LET expr == dict_get(data, "expr", None)
              IN  IF expr.ty # "str" \/ expr.s = ""
                  THEN [ok |-> FALSE,
                        val |-> JStr("Bad request: 'expr' is required (string)")]
                  ELSE LET e == safe_eval_expr(expr.s)
                       IN  IF e.ok THEN e
                           ELSE [ok |-> FALSE, val |-> JStr("Server error: " \o e.val.s)]
    ELSE IF mode = JStr("gpt")
    THEN IF data.ty # "obj"
         THEN [ok |-> FALSE, val |-> JStr("Server error: no attribute 'get'")]
         ELSE LET prompt == dict_get(data, "prompt", None)
              IN  IF prompt.ty # "str" \/ prompt.s = ""
                  THEN [ok |-> FALSE,
                        val |-> JStr("Bad request: 'prompt' is required (string)")]
                  ELSE [ok |-> TRUE, val |-> JStr(gptOut)]
    ELSE [ok |-> FALSE, val |-> JStr("Bad request: unknown mode")]

Raised(od) == [raised |-> TRUE, resp |-> None, d |-> od]

Returned(resp, od) == [raised |-> FALSE, resp |-> resp, d |-> od]

\* handle_request without the cache.set of line 150
handle_request_noStore(msg, od, cap, gptOut, took) ==
    IF msg.ty # "obj" THEN Raised(od)
    ELSE
    LET mode == dict_get(msg, "mode", None)
        data == OrEmptyDict(dict_get(msg, "data", None))
        options == OrEmptyDict(dict_get(msg, "options", None))
    IN  IF options.ty # "obj" THEN Raised(od)
        ELSE
        LET use_cache == Truthy(dict_get(options, "cache", JBool(TRUE)))
            cache_key == json_dumps_sorted(msg)
            g == IF use_cache THEN LRUCache_get(od, cache_key)
                 ELSE [d |-> od, ret |-> None]
        IN  IF use_cache /\ g.ret # None
            THEN Returned(OkResp(g.ret, TRUE, TRUE, took), g.d)
            ELSE LET ev == Evaluate(mode, data, gptOut)
                 IN  IF ev.ok
                     THEN Returned(OkResp(ev.val, FALSE, FALSE, took), g.d)
                     ELSE Returned(ErrResp(ev.val.s), g.d)

\* handle_request using the cache whatever options.cache says
handle_request_ignoreOptions(msg, od, cap, gptOut, took) ==
    IF msg.ty # "obj" THEN Raised(od)
    ELSE
    LET mode == dict_get(msg, "mode", None)
        data == OrEmptyDict(dict_get(msg, "data", None))
        options == OrEmptyDict(dict_get(msg, "options", None))
    IN  IF options.ty # "obj" THEN Raised(od)
        ELSE
        LET cache_key == json_dumps_sorted(msg)
            g == LRUCache_get(od, cache_key)
        IN  IF g.ret # None
            THEN Returned(OkResp(g.ret, TRUE, TRUE, took), g.d)
            ELSE LET ev == Evaluate(mode, data, gptOut)
                 IN  IF ev.ok
                     THEN Returned(OkResp(ev.val, FALSE, FALSE, took),
                                   LRUCache_set(g.d, cap, cache_key, ev.val))
                     ELSE Returned(ErrResp(ev.val.s), g.d)

\* handle_request(msg, cache): the response, or an exception that leaves the
\* function (msg.get or options.get on a value that is no dict, lines 110-113),
\* and the cache afterwards.  gptOut and took are what call_gpt and the clock
\* give this time.
handle_request(msg, od, cap, gptOut, took) ==
    IF msg.ty # "obj" THEN Raised(od)
    ELSE
    LET mode == dict_get(msg, "mode", None)
        data == OrEmptyDict(dict_get(msg, "data", None))
        options == OrEmptyDict(dict_get(msg, "options", None))
    IN  IF options.ty # "obj" THEN Raised(od)
        ELSE
        LET use_cache == Truthy(dict_get(options, "cache", JBool(TRUE)))
            cache_key == json_dumps_sorted(msg)
            g == IF use_cache THEN LRUCache_get(od, cache_key)
                 ELSE [d |-> od, ret |-> None]
        IN  IF use_cache /\ g.ret # None
            THEN Returned(OkResp(g.ret, TRUE, TRUE, took), g.d)
            ELSE LET ev == Evaluate(mode, data, gptOut)
                 IN  IF ev.ok
                     THEN Returned(OkResp(ev.val, FALSE, FALSE, took),
                                   IF use_cache
                                   THEN LRUCache_set(g.d, cap, cache_key, ev.val)
                                   ELSE g.d)
                     ELSE Returned(ErrResp(ev.val.s), g.d)

(***************************************************************************)
(* Bytes on a socket: a sequence of chunks, each a text with the white     *)
(* space around it, or the newline.                                        *)
(***************************************************************************)
Chunk(ws, txt) == [ws |-> ws, txt |-> txt]

NL == Chunk("\n", JBad(""))

HasNL(buf) == \E i \in 1..Len(buf) : buf[i] = NL

\* buf.partition(b"\n")
Partition(buf) ==
    IF HasNL(buf)
    THEN LET i == CHOOSE i \in 1..Len(buf) :
                     buf[i] = NL /\ \A j \in 1..(i - 1) : buf[j] # NL
         IN  [line |-> SubSeq(buf, 1, i - 1), rest |-> SubSeq(buf, i + 1, Len(buf))]
    ELSE [line |-> buf, rest |-> <<>>]

\* json.loads(line.decode("utf-8")): white space around the text is skipped,
\* an empty line and two texts in a row are no JSON
json_loads(line) ==
    IF Len(line) = 1 THEN line[1].txt
    ELSE IF line = <<>> THEN JBad("")
    ELSE JBad("Extra data")

(***************************************************************************)
(* The request lines clients send.                                         *)
(***************************************************************************)
CacheOn == M("options", JObj(<<M("cache", JBool(TRUE))>>))

CacheOff == M("options", JObj(<<M("cache", JBool(FALSE))>>))

Calc(expr) == <<M("mode", JStr("calc")), M("data", JObj(<<M("expr", JStr(expr))>>))>>

\* {"mode":"calc","data":{"expr":"1+2"},"options":{"cache":true}}, as client.py sends it
ReqCalc == JObj(Calc("1+2") \o <<CacheOn>>)

\* the same request, its members in another order
ReqCalcPerm == JObj(<<CacheOn>> \o Calc("1+2"))

ReqSqrt == JObj(Calc("sqrt(9)"))

ReqNoCache == JObj(Calc("1+2") \o <<CacheOff>>)

ReqDivZero == JObj(Calc("10/0") \o <<CacheOn>>)

ReqGpt == JObj(<<M("mode", JStr("gpt")), M("data", JObj(<<M("prompt", JStr("hi"))>>))>>)

ReqBadMode == JObj(<<M("mode", JStr("zzz"))>>)

ReqDataStr == JObj(<<M("mode", JStr("calc")), M("data", JStr("x"))>>)

ReqOptionsStr == JObj(Calc("1+2") \o <<M("options", JStr("x"))>>)

ReqList == JArr(<<M("", JNum("1"))>>)

NotJson == JBad("{oops")

\* what a client may put before a newline: one text, or nothing
Line(txt) == <<Chunk("", txt)>>

EmptyLine == <<>>

\* requests that parse as JSON objects with well-typed options
RequestMenu ==
    {Line(r) : r \in {ReqCalc, ReqCalcPerm, ReqNoCache, ReqDivZero, ReqGpt}}

\* lines that are no JSON, and JSON of unexpected types
OddMenu ==
    {Line(r) : r \in {ReqSqrt, ReqBadMode, ReqDataStr, ReqOptionsStr, ReqList, NotJson}}
        \cup {EmptyLine}

(***************************************************************************)
(* The server: serve accepts connections, handle_client runs one worker    *)
(* per connection, all on one cache.  A worker handles a line, from        *)
(* partition to sendall, in one step.                                      *)
(***************************************************************************)
Conns == 1..NConns

InitServerWith(lines) ==
    /\ menu = lines
    /\ capacity \in 1..MaxCap
    /\ d = <<>>
    /\ call = NoCall
    /\ ref = RefEmpty
    /\ scen = NoScen
    /\ pc = NoThreads /\ arg = NoThreads /\ log = NoThreads
    /\ wire = [c \in Conns |-> <<>>]
    /\ buffer = [c \in Conns |-> <<>>]
    /\ out = [c \in Conns |-> <<>>]
    /\ st = [c \in Conns |-> "open"]
    /\ cli = [c \in Conns |-> "open"]
    /\ hist = <<>>
    /\ PxIdle

\* newlines among the given bytes
CountNL(bytes) == Cardinality({i \in 1..Len(bytes) : bytes[i] = NL})

RECURSIVE SumOver(_, _)
SumOver(f, S) ==
    IF S = {} THEN 0 ELSE LET x == CHOOSE x \in S : TRUE IN f[x] + SumOver(f, S \ {x})

\* the lines sent so far on all connections: those handled, those a worker
\* is busy with, and those still in flight or buffered
LinesSent ==
    Len(hist) + Cardinality({w \in DOMAIN pc : pc[w] # "loop"})
        + SumOver([c \in Conns |-> CountNL(wire[c]) + CountNL(buffer[c])], Conns)

\* the client writes a line and its newline
ClientSend(c, line) ==
    /\ cli[c] = "open" /\ st[c] = "open"
    /\ LinesSent < MaxLines
    /\ wire' = [wire EXCEPT ![c] = @ \o line \o <<NL>>]
    /\ UNCHANGED <<capacity, d, call, ref, scen, pc, arg, log, buffer, out, st, cli, hist, menu, pxVars>>

\* the client closes its end, as client.py does: between requests, when
\* every line it sent has been answered
ClientClose(c) ==
    /\ cli[c] = "open"
    /\ wire[c] = <<>> /\ buffer[c] = <<>>
    /\ cli' = [cli EXCEPT ![c] = "closed"]
    /\ UNCHANGED <<capacity, d, call, ref, scen, pc, arg, log, wire, buffer, out, st, hist, menu, pxVars>>

\* chunk = conn.recv(4096); buffer += chunk, some of the bytes in flight;
\* an empty chunk (the client has closed) ends the worker
Recv(c) ==
    /\ st[c] = "open"
    /\ ~HasNL(buffer[c])
    /\ \/ /\ wire[c] # <<>>
          /\ \E n \in 1..Len(wire[c]) :
                /\ buffer' = [buffer EXCEPT ![c] = @ \o SubSeq(wire[c], 1, n)]
                /\ wire' = [wire EXCEPT ![c] = SubSeq(@, n + 1, Len(@))]
          /\ st' = st
       \/ /\ wire[c] = <<>> /\ cli[c] = "closed"
          /\ st' = [st EXCEPT ![c] = "closed"]
          /\ UNCHANGED <<wire, buffer>>
    /\ UNCHANGED <<capacity, d, call, ref, scen, pc, arg, log, out, cli, hist, menu, pxVars>>

\* handle_client, but going on with the next line after a line that is no JSON
handle_client_line_noClose(buf, od, cap, gptOut, took) ==
    LET p == Partition(buf)
        msg == json_loads(p.line)
        r == IF msg.ty = "bad" THEN Raised(od) ELSE handle_request(msg, od, cap, gptOut, took)
    IN  [buffer |-> p.rest, msg |-> msg, d |-> r.d,
         reply |-> IF msg.ty = "bad" THEN ErrResp("Malformed: JSONDecodeError")
                   ELSE IF r.raised THEN ErrResp("Malformed: AttributeError")
                   ELSE r.resp,
         closed |-> msg.ty # "bad" /\ r.raised]

\* handle_client, but taking the line that arrived last
handle_client_line_newestFirst(buf, od, cap, gptOut, took) ==
    LET last == CHOOSE i \in 1..Len(buf) :
                    buf[i] = NL /\ \A j \in (i + 1)..Len(buf) : buf[j] # NL
        head == SubSeq(buf, 1, last - 1)
        p == IF HasNL(head)
             THEN LET prev == CHOOSE i \in 1..Len(head) :
                                  head[i] = NL /\ \A j \in (i + 1)..Len(head) : head[j] # NL
                  IN  [line |-> SubSeq(head, prev + 1, Len(head)),
                       rest |-> SubSeq(buf, 1, prev) \o SubSeq(buf, last + 1, Len(buf))]
             ELSE Partition(buf)
        msg == json_loads(p.line)
        r == IF msg.ty = "bad" THEN Raised(od) ELSE handle_request(msg, od, cap, gptOut, took)
    IN  [buffer |-> p.rest, msg |-> msg, d |-> r.d,
         reply |-> IF msg.ty = "bad" THEN ErrResp("Malformed: JSONDecodeError")
                   ELSE IF r.raised THEN ErrResp("Malformed: AttributeError")
                   ELSE r.resp,
         closed |-> r.raised]

\* one turn of handle_client's inner loop (lines 195-210) and, when json.loads
\* or handle_request raises, its except block (lines 212-219) and the end of
\* `with conn`: the buffer left, the reply written, and whether the
\* connection is closed
handle_client_line(buf, od, cap, gptOut, took) ==
    LET p == Partition(buf)
        msg == json_loads(p.line)
        r == IF msg.ty = "bad" THEN Raised(od) ELSE handle_request(msg, od, cap, gptOut, took)
    IN  [buffer |-> p.rest, msg |-> msg, d |-> r.d,
         reply |-> IF msg.ty = "bad" THEN ErrResp("Malformed: JSONDecodeError")
                   ELSE IF r.raised THEN ErrResp("Malformed: AttributeError")
                   ELSE r.resp,
         closed |-> r.raised]

ServeLine(c) ==
    /\ st[c] = "open"
    /\ HasNL(buffer[c])
    /\ \E gptOut \in GptOutputs, took \in TookVals :
          LET h == handle_client_line(buffer[c], d, capacity, gptOut, took)
          IN  /\ buffer' = [buffer EXCEPT ![c] = h.buffer]
              /\ d' = h.d
              /\ out' = [out EXCEPT ![c] = Append(@, h.reply)]
              /\ st' = [st EXCEPT ![c] = IF h.closed THEN "closed" ELSE "open"]
              /\ hist' = Append(hist, [c |-> c, msg |-> h.msg, reply |-> h.reply,
                                       closed |-> h.closed])
    /\ UNCHANGED <<capacity, call, ref, scen, pc, arg, log, wire, cli, menu, pxVars>>

NextServer ==
    \/ \E c \in Conns, line \in menu : ClientSend(c, line)
    \/ \E c \in Conns : ClientClose(c)
    \/ \E c \in Conns : Recv(c)
    \/ \E c \in Conns : ServeLine(c)

\* clients sending well-formed requests
SpecServer == InitServerWith(RequestMenu) /\ [][NextServer]_vars

\* a calc request whose data has two members
ReqNested ==
    JObj(<<M("mode", JStr("calc")),
           M("data", JObj(<<M("expr", JStr("2*3")), M("prompt", JStr("hi"))>>)),
           CacheOn>>)

\* the same request, its members and those of its data in another order
ReqNestedPerm ==
    JObj(<<CacheOn,
           M("data", JObj(<<M("prompt", JStr("hi")), M("expr", JStr("2*3"))>>)),
           M("mode", JStr("calc"))>>)

\* a failing request, its members in another order
ReqDivZeroPerm == JObj(<<CacheOn>> \o Calc("10/0"))

\* requests and their reorderings
PermMenu ==
    {Line(r) : r \in {ReqCalc, ReqNested, ReqNestedPerm, ReqDivZero, ReqDivZeroPerm}}

\* clients sending the same requests with their members in different orders
SpecServerPerm == InitServerWith(PermMenu) /\ [][NextServer]_vars

\* a gpt request whose options are a string
ReqGptOptionsStr ==
    JObj(<<M("mode", JStr("gpt")), M("data", JObj(<<M("prompt", JStr("hi"))>>)),
           M("options", JStr("x"))>>)

\* a calc request the parser rejects
ReqBadSyntax == JObj(Calc("1+") \o <<CacheOn>>)

\* gpt requests and failing calc requests
PolicyMenu == {Line(r) : r \in {ReqGpt, ReqGptOptionsStr, ReqDivZero, ReqBadSyntax}}

\* clients sending gpt requests and calc requests that fail
SpecServerPolicy == InitServerWith(PolicyMenu) /\ [][NextServer]_vars

ReqGptNoCache ==
    JObj(<<M("mode", JStr("gpt")), M("data", JObj(<<M("prompt", JStr("hi"))>>)),
           CacheOff>>)

ReqDivZeroNoCache == JObj(Calc("10/0") \o <<CacheOff>>)

\* requests with caching disabled, and one with caching enabled
NoCacheMenu ==
    {Line(r) : r \in {ReqCalc, ReqGpt, ReqNoCache, ReqGptNoCache, ReqDivZeroNoCache}}

\* clients sending requests with caching disabled among others
SpecServerNoCache == InitServerWith(NoCacheMenu) /\ [][NextServer]_vars

\* clients sending lines that are no JSON, or JSON of unexpected types
SpecServerOdd == InitServerWith(OddMenu) /\ [][NextServer]_vars

(***************************************************************************)
(* Reading response envelopes and requests.                                *)
(***************************************************************************)
IsOk(reply) == reply.ty = "obj" /\ dict_get(reply, "ok", None) = JBool(TRUE)

IsError(reply) ==
    /\ reply.ty = "obj"
    /\ dict_get(reply, "ok", None) = JBool(FALSE)
    /\ dict_get(reply, "error", None).ty = "str"

ResultOf(reply) == dict_get(reply, "result", None)

MetaOf(reply, name) ==
    LET meta == dict_get(reply, "meta", None)
    IN  IF meta.ty = "obj" THEN dict_get(meta, name, None) ELSE None

\* options.cache absent or true
CachingEnabled(msg) ==
    /\ msg.ty = "obj"
    /\ \/ ~OD_contains(msg.kids, "options")
       \/ /\ dict_get(msg, "options", None).ty = "obj"
          /\ dict_get(dict_get(msg, "options", None), "cache", JBool(TRUE)) = JBool(TRUE)

\* the first two lines a fresh server handles are the same request, caching enabled
SentTwice ==
    /\ Len(hist) >= 2
    /\ hist[1].msg = hist[2].msg
    /\ CachingEnabled(hist[1].msg)

SecondFromCache ==
    /\ ResultOf(hist[1].reply) = ResultOf(hist[2].reply)
    /\ IsOk(hist[2].reply)
    /\ MetaOf(hist[2].reply, "from_cache") = JBool(TRUE)
    /\ MetaOf(hist[2].reply, "any_cache") = JBool(TRUE)

\* C1 as stated: every request sent twice in succession to a fresh server with
\* caching enabled gets the same result both times, the second time with
\* from_cache = true and any_cache = true.
IdempotentCachingEveryRequest == SentTwice => SecondFromCache

\* C1 amended: every request that the server answers with a success envelope
\* (ok:true), sent twice in succession to a fresh server with caching enabled,
\* gets the same result both times, the second time with from_cache = true and
\* any_cache = true.
IdempotentCaching == SentTwice /\ IsOk(hist[1].reply) => SecondFromCache

\* a gpt request was sent twice; the second reply is the cached text
IdempotentCachingWitness ==
    /\ SentTwice
    /\ hist[1].msg = ReqGpt
    /\ IsOk(hist[1].reply)
    /\ MetaOf(hist[1].reply, "from_cache") = JBool(FALSE)
    /\ MetaOf(hist[2].reply, "from_cache") = JBool(TRUE)

\* the replies to the lines dispatched on connection c, in order
RepliesOn(c) ==
    LET mine == SelectSeq(hist, LAMBDA e : e.c = c)
    IN  [i \in 1..Len(mine) |-> mine[i].reply]

\* C7: a line that is no JSON gets exactly one ok:false envelope, the last
\* thing written on its connection, which is then closed: no later line of
\* that connection is dispatched or answered, buffered or not, and every line
\* before it on that connection was answered and left the connection open.
MalformedClosesConnection ==
    \A i \in 1..Len(hist) :
        hist[i].msg.ty = "bad" =>
            /\ IsError(hist[i].reply)
            /\ hist[i].closed
            /\ st[hist[i].c] = "closed"
            /\ \A j \in (i + 1)..Len(hist) : hist[j].c # hist[i].c
            /\ out[hist[i].c] = RepliesOn(hist[i].c)
            /\ out[hist[i].c][Len(out[hist[i].c])] = hist[i].reply
            /\ \A j \in 1..(i - 1) : hist[j].c = hist[i].c => ~hist[j].closed

\* a request was answered, then a line that is no JSON closed the connection
\* while a complete further line sat in the buffer
MalformedWitness ==
    \E i \in 1..Len(hist) :
        /\ hist[i].msg.ty = "bad"
        /\ HasNL(buffer[hist[i].c])
        /\ st[hist[i].c] = "closed"
        /\ Len(out[hist[i].c]) = 2
        /\ IsOk(out[hist[i].c][1])

\* C8: every line that parses as JSON, whatever its type and the types of its
\* fields, gets one reply envelope and leaves its connection open for the
\* lines that follow.
OnlyParseFailureCloses ==
    \A i \in 1..Len(hist) :
        hist[i].msg.ty # "bad" =>
            /\ ~hist[i].closed
            /\ hist[i].reply.ty = "obj"

(***************************************************************************)
(* The proxy's meta composition (proxy.py lines 94-122).                   *)
(***************************************************************************)
\* the composition, but any_cache taken from the server's flag alone
compose_serverFlagOnly(reply_base, served_from_proxy_cache) ==
    IF reply_base.ty = "bad" THEN [raised |-> FALSE, relay |-> reply_base]
    ELSE IF reply_base.ty # "obj" THEN [raised |-> TRUE, relay |-> None]
    ELSE
    LET m0 == OrEmptyDict(dict_get(reply_base, "meta", None))
        meta == IF m0.ty = "obj" THEN m0.kids ELSE <<>>
        server_from_cache == Truthy(dict_get(JObj(meta), "from_cache", None))
        meta1 == OD_setitem(meta, "proxy_from_cache", JBool(served_from_proxy_cache))
        meta2 == OD_setitem(meta1, "any_cache", JBool(server_from_cache))
    IN  [raised |-> FALSE,
         relay |-> JObj(OD_setitem(reply_base.kids, "meta", JObj(meta2)))]

\* the composition, but counting only the boolean true as a server hit
compose_strictBoolean(reply_base, served_from_proxy_cache) ==
    IF reply_base.ty = "bad" THEN [raised |-> FALSE, relay |-> reply_base]
    ELSE IF reply_base.ty # "obj" THEN [raised |-> TRUE, relay |-> None]
    ELSE
    LET m0 == OrEmptyDict(dict_get(reply_base, "meta", None))
        meta == IF m0.ty = "obj" THEN m0.kids ELSE <<>>
        server_from_cache == dict_get(JObj(meta), "from_cache", None) = JBool(TRUE)
        meta1 == OD_setitem(meta, "proxy_from_cache", JBool(served_from_proxy_cache))
        meta2 == OD_setitem(meta1, "any_cache",
                            JBool(server_from_cache \/ served_from_proxy_cache))
    IN  [raised |-> FALSE,
         relay |-> JObj(OD_setitem(reply_base.kids, "meta", JObj(meta2)))]

\* what handle does with reply_base: json.loads; a text that is no JSON is
\* relayed as it is; a JSON value that is no object makes resp_obj.get raise;
\* an object is relayed with meta.proxy_from_cache and meta.any_cache set
compose(reply_base, served_from_proxy_cache) ==
    IF reply_base.ty = "bad" THEN [raised |-> FALSE, relay |-> reply_base]
    ELSE IF reply_base.ty # "obj" THEN [raised |-> TRUE, relay |-> None]
    ELSE
    LET m0 == OrEmptyDict(dict_get(reply_base, "meta", None))
        meta == IF m0.ty = "obj" THEN m0.kids ELSE <<>>
        server_from_cache == Truthy(dict_get(JObj(meta), "from_cache", None))
        meta1 == OD_setitem(meta, "proxy_from_cache", JBool(served_from_proxy_cache))
        meta2 == OD_setitem(meta1, "any_cache",
                            JBool(server_from_cache \/ served_from_proxy_cache))
    IN  [raised |-> FALSE,
         relay |-> JObj(OD_setitem(reply_base.kids, "meta", JObj(meta2)))]

\* the meta member an upstream reply may carry
MetaChoices ==
    {<<>>, <<M("meta", JNull)>>, <<M("meta", JStr("x"))>>, <<M("meta", JObj(<<>>))>>,
     <<M("meta", JObj(<<M("from_cache", JStr("yes"))>>))>>,
     <<M("meta", JObj(<<M("from_cache", JNum("0"))>>))>>,
     <<M("meta", JObj(<<M("took_ms", JNum("0"))>>))>>}
      \cup {<<M("meta", JObj(<<M("from_cache", JBool(b))>>))>> : b \in BOOLEAN}
      \cup {<<M("meta", JObj(<<M("from_cache", JBool(b)), M("any_cache", JBool(a)),
                               M("took_ms", JNum("0"))>>))>> : a, b \in BOOLEAN}
      \cup {<<M("meta", JObj(<<M("proxy_from_cache", JBool(a)),
                               M("from_cache", JBool(b))>>))>> : a, b \in BOOLEAN}

\* the members before it
BodyChoices ==
    {<<>>, <<M("ok", JBool(TRUE)), M("result", JNum("3.0"))>>,
     <<M("ok", JBool(FALSE)), M("error", JStr("x"))>>}

\* reply lines an upstream peer may send: JSON objects, other JSON, no JSON
UpstreamReplies ==
    {JObj(b \o m) : b \in BodyChoices, m \in MetaChoices}
        \cup {JArr(<<M("", JNum("1"))>>), JStr("x"), JBad("oops")}

InitCompose ==
    /\ capacity = 1
    /\ d = <<>>
    /\ call = NoCall
    /\ ref = RefEmpty
    /\ scen = NoScen
    /\ pc = NoThreads /\ arg = NoThreads /\ log = NoThreads
    /\ NetIdle
    /\ PROXY_CACHE = <<>> /\ upstream = <<>> /\ fwd = <<>>
    /\ \E r \in UpstreamReplies, hit \in BOOLEAN :
          comp = [reply |-> r, hit |-> hit, done |-> FALSE, raised |-> FALSE,
                  relay |-> None]

Compose ==
    /\ ~comp.done
    /\ LET c == compose(comp.reply, comp.hit)
       IN  comp' = [comp EXCEPT !.done = TRUE, !.raised = c.raised, !.relay = c.relay]
    /\ UNCHANGED <<capacity, d, call, ref, scen, pc, arg, log, netVars, PROXY_CACHE, upstream, fwd>>

NextCompose == Compose

SpecCompose == InitCompose /\ [][NextCompose]_vars

\* C2: for every upstream reply that is a JSON object whose meta.from_cache is
\* a boolean serverHit, and for either value of proxyHit, the relayed reply
\* has meta.any_cache = serverHit OR proxyHit and meta.proxy_from_cache =
\* proxyHit.
MetaComposition ==
    (/\ comp.done
     /\ comp.reply.ty = "obj"
     /\ MetaOf(comp.reply, "from_cache").ty = "bool")
    => /\ ~comp.raised
       /\ MetaOf(comp.relay, "any_cache") =
             JBool(MetaOf(comp.reply, "from_cache") = JBool(TRUE) \/ comp.hit)
       /\ MetaOf(comp.relay, "proxy_from_cache") = JBool(comp.hit)

\* a server miss served from the proxy's cache: the server's any_cache = false
\* is replaced by true
MetaCompositionWitness ==
    /\ comp.done
    /\ MetaOf(comp.reply, "from_cache") = JBool(FALSE)
    /\ MetaOf(comp.reply, "any_cache") = JBool(FALSE)
    /\ comp.hit
    /\ MetaOf(comp.relay, "any_cache") = JBool(TRUE)
    /\ MetaOf(comp.relay, "proxy_from_cache") = JBool(TRUE)

(***************************************************************************)
(* The proxy: handle runs one worker per client connection, all workers on *)
(* PROXY_CACHE.  A worker that misses blocks in forward_request_to_server, *)
(* which opens a connection of its own to the server for that one line.    *)
(***************************************************************************)
\* a key that also puts the members of every object in name order
Strip_canonical(line) ==
    IF line = <<>> THEN JBad("") ELSE json_dumps_sorted(line[1].txt)

\* line.decode("utf-8").strip(): the text without the white space around it
Strip(line) == IF line = <<>> THEN JBad("") ELSE line[1].txt

\* the request line with a blank before it
ReqCalcPadded == <<Chunk(" ", ReqCalc)>>

\* a line of white space only
BlankLine == <<Chunk(" ", JBad(""))>>

ProxyMenu ==
    {Line(r) : r \in {ReqCalc, ReqGpt, NotJson}} \cup {ReqCalcPadded, BlankLine}

\* a line the worker is done with: skipped, served from PROXY_CACHE ("hit"),
\* served by the forwarder ("miss"), or given up when the forwarder raised
Handled(c, line, req_str, kind, base, reply, closed) ==
    [c |-> c, line |-> line, msg |-> req_str, kind |-> kind, base |-> base,
     reply |-> reply, closed |-> closed]

\* lines 82-85 and 94-122, with the except block of 124-132 when the
\* composition raises
handle_hit(cache, req_str) ==
    LET reply_base == OD_getitem(cache, req_str)
        c == compose(reply_base, TRUE)
    IN  [cache |-> cache, base |-> reply_base,
         relay |-> IF c.raised THEN ErrResp("Proxy error: AttributeError") ELSE c.relay,
         closed |-> c.raised]

\* the miss path, but keeping in PROXY_CACHE the reply as relayed
handle_miss_storeRelayed(cache, req_str, reply_base) ==
    LET c == compose(reply_base, FALSE)
    IN  [cache |-> OD_setitem(cache, req_str,
                              IF c.raised THEN reply_base ELSE c.relay),
         base |-> reply_base,
         relay |-> IF c.raised THEN ErrResp("Proxy error: AttributeError") ELSE c.relay,
         closed |-> c.raised]

\* the miss path, but keeping only success envelopes of caching-enabled requests
handle_miss_storeOkOnly(cache, req_str, reply_base) ==
    LET c == compose(reply_base, FALSE)
    IN  [cache |-> IF IsOk(reply_base) /\ CachingEnabled(req_str)
                   THEN OD_setitem(cache, req_str, reply_base) ELSE cache,
         base |-> reply_base,
         relay |-> IF c.raised THEN ErrResp("Proxy error: AttributeError") ELSE c.relay,
         closed |-> c.raised]

\* the miss path, but keeping nothing in PROXY_CACHE
handle_miss_noStore(cache, req_str, reply_base) ==
    LET c == compose(reply_base, FALSE)
    IN  [cache |-> cache,
         base |-> reply_base,
         relay |-> IF c.raised THEN ErrResp("Proxy error: AttributeError") ELSE c.relay,
         closed |-> c.raised]

\* lines 91-92 and 94-122 once the forwarder has returned reply_base, with the
\* except block of 124-132 when the composition raises
handle_miss(cache, req_str, reply_base) ==
    LET c == compose(reply_base, FALSE)
    IN  [cache |-> OD_setitem(cache, req_str, reply_base),
         base |-> reply_base,
         relay |-> IF c.raised THEN ErrResp("Proxy error: AttributeError") ELSE c.relay,
         closed |-> c.raised]

InitProxyWith(lines) ==
    /\ menu = lines
    /\ capacity \in 1..MaxCap
    /\ d = <<>>
    /\ call = NoCall
    /\ ref = RefEmpty
    /\ scen = NoScen
    /\ pc = [c \in Conns |-> "loop"]
    /\ arg = [c \in Conns |-> M(None, None)]
    /\ log = NoThreads
    /\ wire = [c \in Conns |-> <<>>]
    /\ buffer = [c \in Conns |-> <<>>]
    /\ out = [c \in Conns |-> <<>>]
    /\ st = [c \in Conns |-> "open"]
    /\ cli = [c \in Conns |-> "open"]
    /\ hist = <<>>
    /\ PROXY_CACHE = <<>>
    /\ upstream = <<>>
    /\ comp = <<>>
    /\ fwd = <<>>

\* the client of connection c closes its end, between requests
ProxyClientClose(c) == pc[c] = "loop" /\ ClientClose(c)

\* chunk = client_sock.recv(4096); buffer += chunk (lines 58-63)
ProxyRecv(c) == pc[c] = "loop" /\ Recv(c)

\* the worker is at the head of its inner loop with a complete line
AtLine(c) == st[c] = "open" /\ pc[c] = "loop" /\ HasNL(buffer[c])

\* lines 67-74: a line that is empty after strip() is ignored
SkipLine(c) ==
    /\ AtLine(c)
    /\ LET p == Partition(buffer[c])
           req_str == Strip(p.line)
       IN  /\ req_str = JBad("")
           /\ buffer' = [buffer EXCEPT ![c] = p.rest]
           /\ hist' = Append(hist, Handled(c, p.line, req_str, "skip", None, None, FALSE))
    /\ UNCHANGED <<capacity, d, call, ref, scen, pc, arg, log, wire, out, st, cli, menu, pxVars>>

\* lines 67-85 and 94-122: the line is a key of PROXY_CACHE
ServeHit(c) ==
    /\ AtLine(c)
    /\ LET p == Partition(buffer[c])
           req_str == Strip(p.line)
       IN  /\ req_str # JBad("")
           /\ OD_contains(PROXY_CACHE, req_str)
           /\ LET h == handle_hit(PROXY_CACHE, req_str)
              IN  /\ buffer' = [buffer EXCEPT ![c] = p.rest]
                  /\ out' = [out EXCEPT ![c] = Append(@, h.relay)]
                  /\ st' = [st EXCEPT ![c] = IF h.closed THEN "closed" ELSE "open"]
                  /\ hist' = Append(hist, Handled(c, p.line, req_str, "hit", h.base, h.relay,
                                                  h.closed))
    /\ UNCHANGED <<capacity, d, call, ref, scen, pc, arg, log, wire, cli, menu, pxVars>>

\* lines 67-89: the line is no key of PROXY_CACHE; forward_request_to_server
\* is called and sends the line (lines 19-21)
StartForward(c) ==
    /\ AtLine(c)
    /\ LET p == Partition(buffer[c])
           req_str == Strip(p.line)
       IN  /\ req_str # JBad("")
           /\ ~OD_contains(PROXY_CACHE, req_str)
           /\ buffer' = [buffer EXCEPT ![c] = p.rest]
           /\ pc' = [pc EXCEPT ![c] = "sent"]
           /\ arg' = [arg EXCEPT ![c] = M(req_str, None)]
           /\ upstream' = Append(upstream, [c |-> c, line |-> p.line, req |-> req_str,
                                            status |-> "pending", reply |-> None])
    /\ UNCHANGED <<capacity, d, call, ref, scen, log, wire, out, st, cli, hist, menu,
                   PROXY_CACHE, comp, fwd>>

\* the server's worker for the forwarder's connection handles the line and
\* writes its reply
UpstreamServe(c) ==
    /\ pc[c] = "sent"
    /\ \E gptOut \in GptOutputs, took \in TookVals :
          LET h == handle_client_line(Line(arg[c].k) \o <<NL>>, d, capacity, gptOut, took)
          IN  /\ d' = h.d
              /\ arg' = [arg EXCEPT ![c] = M(@.k, h.reply)]
    /\ pc' = [pc EXCEPT ![c] = "replied"]
    /\ UNCHANGED <<capacity, call, ref, scen, log, netVars, pxVars>>

\* the call connection c's worker is blocked in
PendingCall(c) ==
    upstream[CHOOSE i \in 1..Len(upstream) :
                 upstream[i].c = c /\ upstream[i].status = "pending"]

\* the call of connection c's worker, marked with how it ended
EndCall(c, status, reply) ==
    [i \in 1..Len(upstream) |->
        IF upstream[i].c = c /\ upstream[i].status = "pending"
        THEN [upstream[i] EXCEPT !.status = status, !.reply = reply]
        ELSE upstream[i]]

\* forward_request_to_server returns the reply line (lines 23-37); handle
\* stores it, composes the meta and answers the client (lines 91-122)
ForwardReturn(c) ==
    /\ pc[c] = "replied"
    /\ LET h == handle_miss(PROXY_CACHE, arg[c].k, arg[c].v)
       IN  /\ PROXY_CACHE' = h.cache
           /\ out' = [out EXCEPT ![c] = Append(@, h.relay)]
           /\ st' = [st EXCEPT ![c] = IF h.closed THEN "closed" ELSE "open"]
           /\ hist' = Append(hist, Handled(c, PendingCall(c).line, arg[c].k, "miss", h.base,
                                            h.relay, h.closed))
           /\ upstream' = EndCall(c, "returned", arg[c].v)
    /\ pc' = [pc EXCEPT ![c] = "loop"]
    /\ arg' = [arg EXCEPT ![c] = M(None, None)]
    /\ UNCHANGED <<capacity, d, call, ref, scen, log, wire, buffer, cli, menu, comp, fwd>>

\* a forwarder failure that fails the one request and keeps the connection
ForwardFail_keepOpen(c) ==
    /\ pc[c] \in {"sent", "replied"}
    /\ out' = [out EXCEPT ![c] = Append(@, ErrResp("Proxy error: timed out"))]
    /\ hist' = Append(hist, Handled(c, PendingCall(c).line, arg[c].k, "failed", None,
                                    ErrResp("Proxy error: timed out"), FALSE))
    /\ upstream' = EndCall(c, "failed", None)
    /\ pc' = [pc EXCEPT ![c] = "loop"]
    /\ arg' = [arg EXCEPT ![c] = M(None, None)]
    /\ UNCHANGED <<capacity, d, call, ref, scen, log, wire, buffer, st, cli, menu,
                   PROXY_CACHE, comp, fwd>>

\* forward_request_to_server raises: the connection is refused, or nothing
\* arrives within the timeout of line 19; the except block of lines 124-132
\* answers with a proxy error and the connection ends
ForwardFail(c) ==
    /\ pc[c] \in {"sent", "replied"}
    /\ out' = [out EXCEPT ![c] = Append(@, ErrResp("Proxy error: timed out"))]
    /\ st' = [st EXCEPT ![c] = "closed"]
    /\ hist' = Append(hist, Handled(c, PendingCall(c).line, arg[c].k, "failed", None,
                                    ErrResp("Proxy error: timed out"), TRUE))
    /\ upstream' = EndCall(c, "failed", None)
    /\ pc' = [pc EXCEPT ![c] = "loop"]
    /\ arg' = [arg EXCEPT ![c] = M(None, None)]
    /\ UNCHANGED <<capacity, d, call, ref, scen, log, wire, buffer, cli, menu,
                   PROXY_CACHE, comp, fwd>>

NextProxy ==
    \/ \E c \in Conns, line \in menu : ClientSend(c, line)
    \/ \E c \in Conns : ProxyClientClose(c)
    \/ \E c \in Conns : ProxyRecv(c)
    \/ \E c \in Conns : SkipLine(c)
    \/ \E c \in Conns : ServeHit(c)
    \/ \E c \in Conns : StartForward(c)
    \/ \E c \in Conns : UpstreamServe(c)
    \/ \E c \in Conns : ForwardReturn(c)
    \/ \E c \in Conns : ForwardFail(c)

SpecProxy == InitProxyWith(ProxyMenu) /\ [][NextProxy]_vars

\* one request written three ways: plain, after a blank, its members reordered
KeysMenu == {Line(ReqCalc), ReqCalcPadded, Line(ReqCalcPerm), BlankLine}

SpecProxyKeys == InitProxyWith(KeysMenu) /\ [][NextProxy]_vars

\* a request with caching disabled, and lines the server answers with an
\* error envelope: a failing evaluation, an unknown mode, a line that is no JSON
UncachedMenu ==
    {Line(r) : r \in {ReqNoCache, ReqDivZero, ReqBadMode, NotJson}} \cup {BlankLine}

SpecProxyUncached == InitProxyWith(UncachedMenu) /\ [][NextProxy]_vars

(***************************************************************************)
(* Claims about the proxy.                                                 *)
(***************************************************************************)
\* the calls of forward_request_to_server made for line R, in the given record
CallsFor(calls, R) == Cardinality({j \in 1..Len(calls) : calls[j].req = R})

\* the lines handled so far with one of the given outcomes
HandledAs(kinds) == {hist[i].msg : i \in {j \in 1..Len(hist) : hist[j].kind \in kinds}}

\* C3 as stated: once the proxy has handled a line R, whatever the outcome, no
\* later step calls the forwarder for R.
NoSecondForwardOnceHandled ==
    [][\A R \in HandledAs({"hit", "miss", "failed"}) :
          CallsFor(upstream', R) = CallsFor(upstream, R)]_vars

\* C3 amended: once the proxy has handled a line R with a reply that the
\* forwarder returned for it, R stays a key of PROXY_CACHE and no later step
\* calls the forwarder for R: every later repetition, on any connection, is
\* answered from PROXY_CACHE.
NoSecondForward ==
    /\ [](\A R \in HandledAs({"hit", "miss"}) : OD_contains(PROXY_CACHE, R))
    /\ [][\A R \in HandledAs({"hit", "miss"}) :
             CallsFor(upstream', R) = CallsFor(upstream, R)]_vars

\* a line was forwarded for one connection and its repetition on the other
\* connection was served from PROXY_CACHE, with one forwarder call in all
NoSecondForwardWitness ==
    \E i, j \in 1..Len(hist) :
        /\ i < j
        /\ hist[i].kind = "miss" /\ hist[j].kind = "hit"
        /\ hist[i].msg = hist[j].msg
        /\ hist[i].c # hist[j].c
        /\ CallsFor(upstream, hist[i].msg) = 1

\* C9: every value in PROXY_CACHE is the reply a forwarder call returned for
\* its key, and carries no proxy_from_cache field, after any hits and misses.
StoredReplyIsRaw ==
    \A i \in 1..Len(PROXY_CACHE) :
        /\ \E j \in 1..Len(upstream) :
              /\ upstream[j].status = "returned"
              /\ upstream[j].req = PROXY_CACHE[i].k
              /\ upstream[j].reply = PROXY_CACHE[i].v
        /\ LET meta == dict_get(PROXY_CACHE[i].v, "meta", None)
           IN  meta.ty = "obj" => ~OD_contains(meta.kids, "proxy_from_cache")

\* a stored reply was relayed on a miss and again on a hit, each time with a
\* proxy_from_cache field, and the stored value has none
StoredReplyWitness ==
    \E i, j \in 1..Len(hist) :
        /\ hist[i].kind = "miss" /\ hist[j].kind = "hit"
        /\ hist[i].msg = hist[j].msg
        /\ MetaOf(hist[i].reply, "proxy_from_cache") = JBool(FALSE)
        /\ MetaOf(hist[j].reply, "proxy_from_cache") = JBool(TRUE)
        /\ OD_contains(PROXY_CACHE, hist[i].msg)
        /\ MetaOf(OD_getitem(PROXY_CACHE, hist[i].msg), "from_cache") = JBool(FALSE)
        /\ MetaOf(OD_getitem(PROXY_CACHE, hist[i].msg), "proxy_from_cache") = None

\* C11: once PROXY_CACHE has an entry for a line, no step overwrites its
\* value or removes it, also when several workers handle the same line at
\* the same time.
ProxyEntryImmutable ==
    [][\A i \in 1..Len(PROXY_CACHE) :
          /\ OD_contains(PROXY_CACHE', PROXY_CACHE[i].k)
          /\ OD_getitem(PROXY_CACHE', PROXY_CACHE[i].k) = PROXY_CACHE[i].v]_vars

\* the two lines are the same text, white space around it apart
SameText(l1, l2) == l1 # <<>> /\ l2 # <<>> /\ l1[1].txt = l2[1].txt

PeerTexts ==
    {Chunk("", OkResp(JNum("3.0"), FALSE, FALSE, "0")), Chunk("", ErrResp("x")),
     Chunk(" ", ErrResp("x")), Chunk("", JBad("{\"ok\": tr"))}

\* everything the peer writes before it closes its end
PeerStreams ==
    {<<>>, <<NL>>}
        \cup {<<t>> : t \in PeerTexts}
        \cup {<<t, NL>> : t \in PeerTexts}
        \cup {<<NL, t, NL>> : t \in PeerTexts}
        \cup {<<t, NL, u>> : t, u \in PeerTexts}

InitForward ==
    /\ capacity = 1
    /\ d = <<>>
    /\ call = NoCall
    /\ ref = RefEmpty
    /\ scen = NoScen
    /\ pc = NoThreads /\ arg = NoThreads /\ log = NoThreads
    /\ NetIdle
    /\ PROXY_CACHE = <<>> /\ upstream = <<>> /\ comp = <<>>
    /\ \E stream \in PeerStreams :
          fwd = [stream |-> stream, coming |-> stream, buf |-> <<>>,
                 outcome |-> "reading", ret |-> JBad("")]

\* lines 32-37, once the loop of line 25 is left
forward_result(buf) ==
    LET line == Partition(buf).line
    IN  IF line = <<>>
        THEN [outcome |-> "raised", ret |-> JBad("Empty response from server")]
        ELSE [outcome |-> "returned", ret |-> Strip(line)]

\* chunk = s.recv(4096), some of the bytes on their way; buf += chunk; with
\* a newline in buf the loop ends and the function returns or raises
FwdRecv ==
    /\ fwd.outcome = "reading"
    /\ fwd.coming # <<>>
    /\ \E n \in 1..Len(fwd.coming) :
          LET buf == fwd.buf \o SubSeq(fwd.coming, 1, n)
              res == IF HasNL(buf) THEN forward_result(buf)
                     ELSE [outcome |-> "reading", ret |-> JBad("")]
          IN  fwd' = [fwd EXCEPT !.buf = buf,
                                 !.coming = SubSeq(@, n + 1, Len(@)),
                                 !.outcome = res.outcome, !.ret = res.ret]
    /\ UNCHANGED <<capacity, d, call, ref, scen, pc, arg, log, netVars, PROXY_CACHE,
                   upstream, comp>>

\* chunk is empty: the peer has closed; break, then lines 32-37
FwdPeerClosed ==
    /\ fwd.outcome = "reading"
    /\ fwd.coming = <<>>
    /\ LET res == forward_result(fwd.buf)
       IN  fwd' = [fwd EXCEPT !.outcome = res.outcome, !.ret = res.ret]
    /\ UNCHANGED <<capacity, d, call, ref, scen, pc, arg, log, netVars, PROXY_CACHE,
                   upstream, comp>>

\* recv raises: nothing arrived within the timeout set at line 19
FwdTimeout ==
    /\ fwd.outcome = "reading"
    /\ fwd' = [fwd EXCEPT !.outcome = "raised", !.ret = JBad("timed out")]
    /\ UNCHANGED <<capacity, d, call, ref, scen, pc, arg, log, netVars, PROXY_CACHE,
                   upstream, comp>>

NextForward == FwdRecv \/ FwdPeerClosed \/ FwdTimeout

SpecForward == InitForward /\ [][NextForward]_vars

\* C13: the forwarder returns a reply only when it has received a newline,
\* and then the content before that newline (white space around it apart);
\* when the peer closes before any newline, it raises, however many bytes
\* had arrived.
ForwarderNeedsNewline ==
    fwd.outcome = "returned" =>
        /\ HasNL(fwd.buf)
        /\ Partition(fwd.buf).line # <<>>
        /\ Partition(fwd.buf).line[1].txt = fwd.ret

(***************************************************************************)
(* Claims about the server's cache key.                                    *)
(***************************************************************************)
\* the two JSON values are equal but for the order of the members of their
\* objects, at any depth
RECURSIVE SameUpToOrder(_, _)
SameUpToOrder(a, b) ==
    IF a.ty = "obj" /\ b.ty = "obj"
    THEN /\ OD_keys(a.kids) = OD_keys(b.kids)
         /\ Len(a.kids) = Len(b.kids)
         /\ \A name \in OD_keys(a.kids) :
               SameUpToOrder(OD_getitem(a.kids, name), OD_getitem(b.kids, name))
    ELSE a = b

\* entries i and i+1 of the history are a request and a reordering of it,
\* caching enabled
ReorderedNext(i) ==
    /\ i + 1 <= Len(hist)
    /\ hist[i].msg # hist[i + 1].msg
    /\ SameUpToOrder(hist[i].msg, hist[i + 1].msg)
    /\ CachingEnabled(hist[i].msg)

ServedFromCacheAfter(i) ==
    /\ IsOk(hist[i + 1].reply)
    /\ MetaOf(hist[i + 1].reply, "from_cache") = JBool(TRUE)
    /\ ResultOf(hist[i + 1].reply) = ResultOf(hist[i].reply)

\* C14 as stated: whenever the server has served a request A with caching
\* enabled and next handles a request B equal to A but for the order of object
\* keys, B is a cache hit returning A's result.
CanonicalKeyEveryRequest ==
    \A i \in 1..Len(hist) : ReorderedNext(i) => ServedFromCacheAfter(i)

\* C14 amended: whenever the server has answered a request A with a success
\* envelope, caching enabled, and next handles a request B equal to A but
\* for the order of object keys at any depth, B is a cache hit returning A's
\* result.
CanonicalKey ==
    \A i \in 1..Len(hist) :
        ReorderedNext(i) /\ IsOk(hist[i].reply) => ServedFromCacheAfter(i)

\* a request was computed, and the same request with the members of its
\* nested data reordered was then served from the cache
CanonicalKeyWitness ==
    /\ Len(hist) >= 2
    /\ hist[1].msg = ReqNested /\ hist[2].msg = ReqNestedPerm
    /\ MetaOf(hist[1].reply, "from_cache") = JBool(FALSE)
    /\ MetaOf(hist[2].reply, "from_cache") = JBool(TRUE)
    /\ ResultOf(hist[2].reply) = JNum("6.0")

(***************************************************************************)
(* Claims about the order of handling on one server connection.            *)
(***************************************************************************)
\* what the request asks for agrees with what the reply carries
AnswerFits(msg, reply) ==
    IF msg \in {ReqCalc, ReqCalcPerm, ReqNoCache}
    THEN IsOk(reply) /\ ResultOf(reply) = JNum("3.0")
    ELSE IF msg = ReqDivZero THEN IsError(reply)
    ELSE IF msg = ReqGpt THEN IsOk(reply) /\ ResultOf(reply).ty = "str"
    ELSE FALSE

\* the lines of connection c that are received or in flight, oldest first
Unhandled(c) == buffer[c] \o wire[c]

\* C15: on every server connection the replies written are, in order, the
\* replies to the lines handled on it, one reply per line handled; and every
\* step that handles a line of a connection handles the oldest line of that
\* connection not handled yet, writing its reply in the same turn of the
\* loop, before the next line is taken.
InArrivalOrder ==
    /\ [](\A c \in Conns :
            /\ out[c] = RepliesOn(c)
            /\ \A i \in 1..Len(hist) : AnswerFits(hist[i].msg, hist[i].reply))
    /\ [][\A c \in Conns :
            out'[c] # out[c] =>
                /\ Len(hist') = Len(hist) + 1
                /\ hist'[Len(hist')].c = c
                /\ hist'[Len(hist')].msg = json_loads(Partition(Unhandled(c)).line)
                /\ out'[c] = Append(out[c], hist'[Len(hist')].reply)
                /\ Unhandled(c)' = Partition(Unhandled(c)).rest]_vars

\* two different lines arrived together on a connection; the first has been
\* answered and the second waits in the buffer
InArrivalOrderWitness ==
    \E c \in Conns :
        /\ Len(out[c]) = 1
        /\ IsOk(out[c][1])
        /\ \E i \in 1..Len(hist) : hist[i].c = c /\ hist[i].msg = ReqCalc
        /\ HasNL(buffer[c])
        /\ json_loads(Partition(buffer[c]).line) = ReqDivZero

(***************************************************************************)
(* Claims about the error policy.                                          *)
(***************************************************************************)
\* a gpt request with a non-empty string prompt
IsGptWithPrompt(msg) ==
    /\ msg.ty = "obj"
    /\ dict_get(msg, "mode", None) = JStr("gpt")
    /\ dict_get(msg, "data", None).ty = "obj"
    /\ dict_get(dict_get(msg, "data", None), "prompt", None).ty = "str"
    /\ dict_get(dict_get(msg, "data", None), "prompt", None).s # ""

\* a calc request whose expression does not evaluate
IsFailingCalc(msg) ==
    /\ msg.ty = "obj"
    /\ dict_get(msg, "mode", None) = JStr("calc")
    /\ dict_get(msg, "data", None).ty = "obj"
    /\ dict_get(dict_get(msg, "data", None), "expr", None) \in {JStr("10/0"), JStr("1+")}

\* C16: every gpt request with a non-empty string prompt is answered ok:true,
\* its result the delegate's text or the text made from the delegate's
\* failure; every failing calc evaluation is answered ok:false; neither
\* closes the connection.
AsymmetricErrorPolicy ==
    \A i \in 1..Len(hist) :
        /\ IsGptWithPrompt(hist[i].msg) =>
              /\ IsOk(hist[i].reply)
              /\ ResultOf(hist[i].reply) \in {JStr(g) : g \in GptOutputs}
              /\ ~hist[i].closed
        /\ IsFailingCalc(hist[i].msg) =>
              /\ IsError(hist[i].reply)
              /\ ~hist[i].closed

(***************************************************************************)
(* Claims about the server flag the composition reads.                     *)
(***************************************************************************)
\* C17 as stated: when the upstream reply's meta.from_cache is anything but
\* the boolean true, or is absent, the relayed any_cache equals proxyHit.
ServerHitOnlyIfTrue ==
    (/\ comp.done
     /\ comp.reply.ty = "obj"
     /\ MetaOf(comp.reply, "from_cache") # JBool(TRUE))
    => /\ ~comp.raised
       /\ MetaOf(comp.relay, "any_cache") = JBool(comp.hit)

\* the reply's meta is an object whose from_cache Python counts as true: the
\* boolean true, a non-empty string, a non-zero number, a non-empty container
FromCacheTruthy(reply) ==
    LET f == MetaOf(reply, "from_cache")
    IN  \/ f = JBool(TRUE)
        \/ f.ty = "str" /\ f.s # ""
        \/ f.ty = "num" /\ f.s \notin {"0", "0.0"}
        \/ f.ty \in {"obj", "arr"} /\ f.kids # <<>>

\* C17 amended: serverHit is the truth value Python gives meta.from_cache:
\* false when meta is absent or no object, or from_cache is absent, null,
\* false, zero or empty; true when it is the boolean true or any other
\* truthy value, such as a non-empty string or a non-zero number.  The
\* relayed any_cache equals serverHit OR proxyHit.
ServerHitIsTruthiness ==
    (comp.done /\ comp.reply.ty = "obj")
    => /\ ~comp.raised
       /\ MetaOf(comp.relay, "any_cache") =
             JBool(FromCacheTruthy(comp.reply) \/ comp.hit)

\* from_cache is the string "yes" and the proxy missed: any_cache is true
ServerHitWitness ==
    /\ comp.done
    /\ MetaOf(comp.reply, "from_cache") = JStr("yes")
    /\ ~comp.hit
    /\ MetaOf(comp.relay, "any_cache") = JBool(TRUE)

(***************************************************************************)
(* Claims about requests with caching disabled.                            *)
(***************************************************************************)
\* options.cache is false
CachingDisabled(msg) ==
    /\ msg.ty = "obj"
    /\ dict_get(msg, "options", None).ty = "obj"
    /\ dict_get(dict_get(msg, "options", None), "cache", JBool(TRUE)) = JBool(FALSE)

\* the reply is what evaluating the request gives, and says it is no cache hit
FreshlyComputed(msg, reply) ==
    IF msg = ReqNoCache
    THEN /\ IsOk(reply) /\ ResultOf(reply) = JNum("3.0")
         /\ MetaOf(reply, "from_cache") = JBool(FALSE)
    ELSE IF msg = ReqGptNoCache
    THEN /\ IsOk(reply) /\ ResultOf(reply) \in {JStr(g) : g \in GptOutputs}
         /\ MetaOf(reply, "from_cache") = JBool(FALSE)
    ELSE IF msg = ReqDivZeroNoCache
    THEN IsError(reply) /\ ~OD_contains(reply.kids, "meta")
    ELSE FALSE

ForwardFailureEndsConnection ==
    /\ [][(Len(hist') = Len(hist) + 1 /\ hist'[Len(hist')].kind = "failed")
            => LET c == hist'[Len(hist')].c
               IN  /\ PROXY_CACHE' = PROXY_CACHE
                   /\ Len(out'[c]) = Len(out[c]) + 1
                   /\ IsError(out'[c][Len(out'[c])])
                   /\ st'[c] = "closed"
                   /\ \A o \in Conns \ {c} :
                         /\ out'[o] = out[o] /\ st'[o] = st[o]
                         /\ buffer'[o] = buffer[o] /\ wire'[o] = wire[o]
                         /\ pc'[o] = pc[o] /\ arg'[o] = arg[o]]_vars
    /\ [](\A i \in 1..Len(hist) :
            hist[i].kind = "failed" =>
                /\ st[hist[i].c] = "closed"
                /\ pc[hist[i].c] = "loop"
                /\ \A j \in (i + 1)..Len(hist) : hist[j].c # hist[i].c
                /\ out[hist[i].c][Len(out[hist[i].c])] = hist[i].reply)

\* the forward of a connection's first line failed while its second line sat
\* in the buffer; the other connection was served afterwards
ForwardFailureWitness ==
    \E i, j \in 1..Len(hist) :
        /\ i < j
        /\ hist[i].kind = "failed"
        /\ HasNL(buffer[hist[i].c])
        /\ Len(out[hist[i].c]) = 1
        /\ ~OD_contains(PROXY_CACHE, hist[i].msg)
        /\ hist[j].c # hist[i].c
        /\ hist[j].kind = "miss"
        /\ st[hist[j].c] = "open"

(***************************************************************************)
(* Claims about what a proxy hit relays.                                   *)
(***************************************************************************)
\* the first entry of the history in which a forward of line R returned
OriginalForward(R) ==
    CHOOSE i \in 1..Len(hist) :
        /\ hist[i].kind = "miss" /\ hist[i].msg = R
        /\ \A k \in 1..(i - 1) : ~(hist[k].kind = "miss" /\ hist[k].msg = R)

\* C20: every proxy hit on a line whose cached reply is a JSON object relays
\* proxy_from_cache = true and any_cache = true, together with the
\* from_cache value and the result of the reply the server gave to the
\* original forward of that line, whatever has happened to the server's
\* cache since.
HitRelaysOriginalForward ==
    \A j \in 1..Len(hist) :
        (hist[j].kind = "hit" /\ hist[j].base.ty = "obj") =>
            /\ \E i \in 1..(j - 1) : hist[i].kind = "miss" /\ hist[i].msg = hist[j].msg
            /\ MetaOf(hist[j].reply, "proxy_from_cache") = JBool(TRUE)
            /\ MetaOf(hist[j].reply, "any_cache") = JBool(TRUE)
            /\ MetaOf(hist[j].reply, "from_cache") =
                  MetaOf(hist[OriginalForward(hist[j].msg)].base, "from_cache")
            /\ ResultOf(hist[j].reply) =
                  ResultOf(hist[OriginalForward(hist[j].msg)].base)

(***************************************************************************)
(* The proxy driven by one client program at a time, as client.py does: it *)
(* sends a line only when every line sent before has been dealt with.      *)
(***************************************************************************)
\* a request, a failing request, and their reorderings
CrossMenu ==
    {Line(r) : r \in {ReqCalc, ReqCalcPerm, ReqDivZero, ReqDivZeroPerm}} \cup {BlankLine}

\* nothing is in flight, buffered or being forwarded
AllAnswered ==
    \A c \in Conns : wire[c] = <<>> /\ buffer[c] = <<>> /\ pc[c] = "loop"

SeqClientSend(c, line) ==
    /\ cli[c] = "open" /\ st[c] = "open"
    /\ AllAnswered
    /\ Len(hist) < MaxSeqLines
    /\ wire' = [wire EXCEPT ![c] = @ \o line \o <<NL>>]
    /\ UNCHANGED <<capacity, d, call, ref, scen, pc, arg, log, buffer, out, st, cli, hist, menu, pxVars>>

NextProxySeq ==
    \/ \E c \in Conns, line \in menu : SeqClientSend(c, line)
    \/ \E c \in Conns : ProxyClientClose(c)
    \/ \E c \in Conns : ProxyRecv(c)
    \/ \E c \in Conns : SkipLine(c)
    \/ \E c \in Conns : ServeHit(c)
    \/ \E c \in Conns : StartForward(c)
    \/ \E c \in Conns : UpstreamServe(c)
    \/ \E c \in Conns : ForwardReturn(c)
    \/ \E c \in Conns : ForwardFail(c)

SpecProxySeq == InitProxyWith(CrossMenu) /\ [][NextProxySeq]_vars

(***************************************************************************)
(* Claims about what the proxy keeps.                                      *)
(***************************************************************************)
\* C21: whatever reply the forwarder returned for a line, also for a request
\* with options.cache false and for a line the server answered with an error
\* envelope, that reply is kept in PROXY_CACHE; every later repetition of the
\* line is a hit relayed with proxy_from_cache = true and any_cache = true,
\* and no later step calls the forwarder for the line.
ProxyCachesEveryReply ==
    /\ [](\A i \in 1..Len(hist) :
            /\ hist[i].kind = "miss" => OD_contains(PROXY_CACHE, hist[i].msg)
            /\ hist[i].kind = "hit" =>
                  /\ IsOk(hist[i].reply) \/ IsError(hist[i].reply)
                  /\ MetaOf(hist[i].reply, "proxy_from_cache") = JBool(TRUE)
                  /\ MetaOf(hist[i].reply, "any_cache") = JBool(TRUE)
                  /\ ResultOf(hist[i].reply) = ResultOf(hist[i].base)
                  /\ dict_get(hist[i].reply, "error", None) =
                        dict_get(hist[i].base, "error", None))
    /\ [][\A i \in 1..Len(hist) :
             hist[i].kind = "miss" =>
                 CallsFor(upstream', hist[i].msg) = CallsFor(upstream, hist[i].msg)]_vars

\* a request with caching disabled was forwarded, then the line that is no
\* JSON was forwarded and answered with an error envelope, and its
\* repetition was a proxy hit relaying that envelope
ProxyCachesWitness ==
    /\ Len(hist) = 3
    /\ hist[1].kind = "miss" /\ hist[1].msg = ReqNoCache
    /\ hist[2].kind = "miss" /\ hist[2].msg = NotJson /\ IsError(hist[2].base)
    /\ hist[3].kind = "hit" /\ hist[3].msg = NotJson /\ IsError(hist[3].reply)
    /\ MetaOf(hist[3].reply, "any_cache") = JBool(TRUE)
    /\ Len(upstream) = 2

(***************************************************************************)
(* Claims about the two key rules together.                                *)
(***************************************************************************)
\* the text of the line of a history entry, as the client sent it
TextSent(e) == IF e.line = <<>> THEN JBad("") ELSE e.line[1].txt

\* entries i and j are the first two lines answered: a caching-enabled request
\* A answered by a forward to the fresh server, then a reordering B of it
FirstThenReordered(i, j) ==
    /\ i < j /\ j <= Len(hist)
    /\ \A k \in 1..(j - 1) : k # i => hist[k].kind = "skip"
    /\ hist[i].kind = "miss"
    /\ hist[j].kind \in {"hit", "miss"}
    /\ TextSent(hist[i]) # TextSent(hist[j])
    /\ SameUpToOrder(TextSent(hist[i]), TextSent(hist[j]))
    /\ CachingEnabled(TextSent(hist[i]))

\* B was a proxy miss and a server hit; later hits on B report from_cache =
\* true, later hits on A report from_cache = false
CrossLayerOutcome(i, j) ==
    /\ hist[j].kind = "miss"
    /\ MetaOf(hist[j].reply, "proxy_from_cache") = JBool(FALSE)
    /\ MetaOf(hist[j].reply, "from_cache") = JBool(TRUE)
    /\ MetaOf(hist[j].reply, "any_cache") = JBool(TRUE)
    /\ OD_contains(PROXY_CACHE, TextSent(hist[j]))
    /\ MetaOf(OD_getitem(PROXY_CACHE, TextSent(hist[j])), "from_cache") = JBool(TRUE)
    /\ \A k \in 1..Len(hist) :
          hist[k].kind = "hit" =>
              /\ TextSent(hist[k]) = TextSent(hist[j]) =>
                    MetaOf(hist[k].reply, "from_cache") = JBool(TRUE)
              /\ TextSent(hist[k]) = TextSent(hist[i]) =>
                    MetaOf(hist[k].reply, "from_cache") = JBool(FALSE)

\* C22 as stated: for all valid caching-enabled request lines A and B equal
\* but for the order of object keys, sent A then B through the proxy to a
\* fresh server, B is a proxy miss and a server hit, and later proxy hits
\* report from_cache = true for B and false for A.
CrossLayerEveryValidRequest ==
    \A i, j \in 1..Len(hist) : FirstThenReordered(i, j) => CrossLayerOutcome(i, j)

\* C22 amended: the same, for lines A that the server answers with a success
\* envelope.
CrossLayer ==
    \A i, j \in 1..Len(hist) :
        FirstThenReordered(i, j) /\ IsOk(hist[i].reply) => CrossLayerOutcome(i, j)

\* A, then B, then a hit on B and a hit on A
CrossLayerWitness ==
    /\ Len(hist) = 4
    /\ TextSent(hist[1]) = ReqCalc /\ hist[1].kind = "miss"
    /\ TextSent(hist[2]) = ReqCalcPerm /\ hist[2].kind = "miss"
    /\ TextSent(hist[3]) = ReqCalcPerm /\ hist[3].kind = "hit"
    /\ TextSent(hist[4]) = ReqCalc /\ hist[4].kind = "hit"
    /\ MetaOf(hist[3].reply, "from_cache") = JBool(TRUE)
    /\ MetaOf(hist[4].reply, "from_cache") = JBool(FALSE)
====
